---- MODULE Spec2Model ----
(***************************************************************************)
(* Model of YouTubeFetcher (src/src/youtube_fetcher.py):                   *)
(*   - get_playlist_video_ids: cursor-based pagination of the listing API  *)
(*   - fetch_transcript: variant selection, segment fetch, classification  *)
(* The external services (YouTube Data API, youtube_transcript_api) are    *)
(* the environment: every response or exception they can produce is a     *)
(* nondeterministic choice of the action that performs the call.           *)
(***************************************************************************)
EXTENDS Integers, Sequences, FiniteSets, TLC

\* ------------------------------------------------------------------ bounds
MaxVariants == 3      \* variants in one member's variant set
MaxSegs     == 2      \* segments returned by one transcript.fetch()
MaxPages    == 3      \* page requests of one enumeration
MaxPageLen  == 2      \* items on one page of the listing
MaxMembers  == 3      \* members of a playlist processed by fetch_and_process_videos

\* --------------------------------------------------------------- constants
MaxResults == 50      \* maxResults=50 of the playlistItems().list request

None == "<None>"      \* Python's None

VideoIds    == {"v1", "v2"}
PlaylistIds == {"PL1"}
Langs       == {"en", "de", "fr"}

\* Page tokens a server may put in 'nextPageToken'; "" is a present but falsy
\* token, None is the absent key (response.get returns None).
PageTokens  == {"t1", "t2"}
TokenValues == PageTokens \cup {"", None}

\* Exception classes, as the except clauses tell them apart.  "Exception"
\* stands for any other subclass of Exception (network, parsing, KeyError...).
TranscriptErrors == {"TranscriptsDisabled", "NoTranscriptFound", "VideoUnavailable"}
ExceptionKinds   == TranscriptErrors \cup {"Exception"}
ListingErrors    == {"HttpError", "Exception"}

\* Texts are sequences of characters.
Hello == <<"H", "e", "l", "l", "o">>
world == <<"w", "o", "r", "l", "d">>
SegmentTexts == {<<>>, Hello, world, <<"o", " ", "k">>}

\* Sequences over S of length 0..n
SeqUpTo(S, n) == UNION {[1..k -> S] : k \in 0..n}

VariantLists == SeqUpTo(Langs, MaxVariants)
Segments     == [text : SegmentTexts]
SegmentLists == SeqUpTo(Segments, MaxSegs)
PageItems    == SeqUpTo(VideoIds, MaxPageLen)

VARIABLES
  \* ---- get_playlist_video_ids
  lpc,               \* position: "idle", "request", "returned", "raised"
  playlist_id,       \* argument
  video_ids,         \* accumulator (line 33)
  next_page_token,   \* cursor (line 34)
  list_result,       \* the returned list (meaningful when lpc = "returned")
  list_exc,          \* the propagated exception (when lpc = "raised")
  requests,          \* history: the page requests issued by this call
  pages,             \* history: the responses served to this call
  failures,          \* history: number of failed page requests of this call
  \* ---- fetch_transcript
  rpc,               \* position: "idle", "list_transcripts", "find_transcript",
                     \*   "fallback", "check", "fetch", "returned", "raised"
  video_id,          \* argument
  transcript_list,   \* the variant set, in server order (language codes)
  listed,            \* history: list_transcripts returned a variant set
  transcript,        \* selected variant: its position in transcript_list, 0 = None
  language,          \* local 'language'
  transcript_data,   \* segments returned by transcript.fetch()
  result,            \* the returned record (when rpc = "returned")
  fetched,           \* history: variants on which fetch() was called
  faultAt,           \* history: step whose call raised ("none" if no call raised)
  fault,             \* history: the exception class raised there
  \* ---- fetch_and_process_videos (main.py)
  mpc,               \* position: "idle", "listing", "loop", "resolving",
                     \*   "completed", "raised"
  playlist_url,      \* argument (a sequence of URL pieces)
  main_video_ids,    \* the list returned by get_playlist_video_ids (line 33)
  member_i,          \* enumerate() index i of the current member (line 37)
  transcript_result, \* line 41
  doc_url,           \* line 49
  calls,             \* history: the fetcher calls of this run, in order
  stored             \* history: store calls (arguments) of the current member

listVars    == <<lpc, playlist_id, video_ids, next_page_token, list_result,
                 list_exc, requests, pages, failures>>
resolveVars == <<rpc, video_id, transcript_list, listed, transcript, language,
                 transcript_data, result, fetched, faultAt, fault>>
mainVars    == <<mpc, playlist_url, main_video_ids, member_i, transcript_result, doc_url,
                 calls, stored>>
vars        == <<listVars, resolveVars, mainVars>>

\* ======================================================= get_playlist_video_ids

\* `if not next_page_token` (line 55): None and "" are falsy.
Truthy(token) == token # None /\ token # ""

\* for item in response['items']: video_ids.append(videoId)  (lines 49-51)
RECURSIVE AppendAll(_, _)
AppendAllDedup(acc, items) ==
  IF items = <<>> THEN acc
  ELSE IF \E i \in 1..Len(acc) : acc[i] = Head(items)
       THEN AppendAll(acc, Tail(items))
       ELSE AppendAll(Append(acc, Head(items)), Tail(items))
AppendAll(acc, items) ==
  IF items = <<>> THEN acc
  ELSE AppendAll(Append(acc, Head(items)), Tail(items))

\* The except clauses of get_playlist_video_ids (lines 63-68): both log and
\* re-raise.  "raise": the exception propagates; "return": the accumulator
\* would be returned.
ListHandlerReturnsPartial(e) == "return"
ListHandler(e) == "raise"

ListInit ==
  /\ lpc = "idle"
  /\ playlist_id = None
  /\ video_ids = <<>>
  /\ next_page_token = None
  /\ list_result = <<>>
  /\ list_exc = None
  /\ requests = <<>>
  /\ pages = <<>>
  /\ failures = 0

\* Entry of get_playlist_video_ids (lines 33-34).
EnterGetPlaylistVideoIds(p) ==
  /\ playlist_id' = p
  /\ lpc' = "request"
  /\ video_ids' = <<>>
  /\ next_page_token' = None
  /\ list_result' = <<>>
  /\ list_exc' = None
  /\ requests' = <<>>
  /\ pages' = <<>>
  /\ failures' = 0

\* A call of get_playlist_video_ids on its own.
CallGetPlaylistVideoIds ==
  /\ lpc \in {"idle", "returned", "raised"}
  /\ \E p \in PlaylistIds : EnterGetPlaylistVideoIds(p)
  /\ UNCHANGED resolveVars
  /\ UNCHANGED mainVars

\* The request built at lines 39-44.
PageRequestFirstPageAgain ==
  [playlistId |-> playlist_id, maxResults |-> MaxResults, pageToken |-> None]
PageRequest ==
  [playlistId |-> playlist_id, maxResults |-> MaxResults, pageToken |-> next_page_token]

\* One iteration of the loop whose request.execute() answers (lines 39-58, 60-61).
PageSucceeds ==
  /\ lpc = "request"
  /\ Len(requests) < MaxPages
  /\ \E items \in PageItems, token \in TokenValues :
       /\ Len(items) <= MaxResults
       /\ requests' = Append(requests, PageRequest)
       /\ pages' = Append(pages, [items |-> items, nextPageToken |-> token])
       /\ video_ids' = AppendAll(video_ids, items)
       /\ next_page_token' = token
       /\ IF Truthy(token)
          THEN /\ lpc' = "request"
               /\ list_result' = list_result
          ELSE /\ lpc' = "returned"
               /\ list_result' = video_ids'
  /\ UNCHANGED <<playlist_id, list_exc, failures>>
  /\ UNCHANGED resolveVars
  /\ UNCHANGED mainVars

\* One iteration whose request.execute() (or the response parsing) raises
\* (lines 63-68).
PageFails ==
  /\ lpc = "request"
  /\ Len(requests) < MaxPages
  /\ \E e \in ListingErrors :
       /\ requests' = Append(requests, PageRequest)
       /\ failures' = failures + 1
       /\ IF ListHandler(e) = "raise"
          THEN /\ lpc' = "raised"
               /\ list_exc' = e
               /\ list_result' = list_result
          ELSE /\ lpc' = "returned"
               /\ list_exc' = list_exc
               /\ list_result' = video_ids
  /\ UNCHANGED <<playlist_id, video_ids, next_page_token, pages>>
  /\ UNCHANGED resolveVars
  /\ UNCHANGED mainVars

NextList == CallGetPlaylistVideoIds \/ PageSucceeds \/ PageFails

\* ============================================================= fetch_transcript

NoResult == [text |-> <<>>, language |-> None, status |-> "<none>"]

\* The record returned on the failure paths (lines 107-111, 128-153).
FailureResult(status) == [text |-> <<>>, language |-> None, status |-> status]

\* `if transcript is None` (lines 105-111).
NotFoundResultAsError == FailureResult("error")
NotFoundResult == FailureResult("unavailable")

\* The except clauses of the outer try, in order (lines 126-153).
ExceptClausesNoCatchAll ==
  << [class |-> "TranscriptsDisabled", status |-> "unavailable"],
     [class |-> "NoTranscriptFound",   status |-> "unavailable"],
     [class |-> "VideoUnavailable",    status |-> "error"] >>
ExceptClausesUnavailableVideo ==
  << [class |-> "TranscriptsDisabled", status |-> "unavailable"],
     [class |-> "NoTranscriptFound",   status |-> "unavailable"],
     [class |-> "VideoUnavailable",    status |-> "unavailable"],
     [class |-> "Exception",           status |-> "error"] >>
ExceptClauses ==
  << [class |-> "TranscriptsDisabled", status |-> "unavailable"],
     [class |-> "NoTranscriptFound",   status |-> "unavailable"],
     [class |-> "VideoUnavailable",    status |-> "error"],
     [class |-> "Exception",           status |-> "error"] >>

\* isinstance(e, class): every modelled class derives from Exception.
IsInstance(e, class) == e = class \/ class = "Exception"

\* Index of the first clause that catches e, 0 if none does.
MatchingClause(e) ==
  LET hits == {i \in 1..Len(ExceptClauses) : IsInstance(e, ExceptClauses[i].class)}
  IN IF hits = {} THEN 0 ELSE CHOOSE i \in hits : \A j \in hits : i <= j

\* find_transcript(['en']) (line 93).
PreferredLanguagesGerman == <<"de">>
PreferredLanguages == <<"en">>

\* TranscriptList.find_transcript: the first variant, in the list's order,
\* whose language is the first requested code that occurs; 0 when none occurs
\* (NoTranscriptFound).
FindTranscriptIndex(list, codes) ==
  LET found == {c \in 1..Len(codes) : \E i \in 1..Len(list) : list[i] = codes[c]}
  IN IF found = {} THEN 0
     ELSE LET c == CHOOSE c \in found : \A d \in found : c <= d
              at == {i \in 1..Len(list) : list[i] = codes[c]}
          IN CHOOSE i \in at : \A j \in at : i <= j

\* available_transcripts[0] (line 100).
FallbackIndexLast(available_transcripts) == Len(available_transcripts)
FallbackIndex(available_transcripts) == 1

\* ' '.join([entry['text'] for entry in transcript_data]) (line 117).
SeparatorNone == <<>>
Separator == <<" ">>

EntryTexts(data) == [i \in 1..Len(data) |-> data[i].text]

RECURSIVE Join(_)
Join(texts) ==
  IF texts = <<>> THEN <<>>
  ELSE IF Len(texts) = 1 THEN texts[1]
  ELSE texts[1] \o Separator \o Join(Tail(texts))

ResolveInit ==
  /\ rpc = "idle"
  /\ video_id = None
  /\ transcript_list = <<>>
  /\ listed = FALSE
  /\ transcript = 0
  /\ language = None
  /\ transcript_data = <<>>
  /\ result = NoResult
  /\ fetched = <<>>
  /\ faultAt = "none"
  /\ fault = None

\* An exception e raised at `step` inside the outer try (lines 83-153): the
\* first matching except clause returns its record; with no matching clause
\* the exception leaves fetch_transcript.
RaiseInTry(step, e) ==
  /\ faultAt' = step
  /\ fault' = e
  /\ IF MatchingClause(e) # 0
     THEN /\ rpc' = "returned"
          /\ result' = FailureResult(ExceptClauses[MatchingClause(e)].status)
     ELSE /\ rpc' = "raised"
          /\ result' = NoResult

\* Entry of fetch_transcript.
EnterFetchTranscript(v) ==
  /\ video_id' = v
  /\ rpc' = "list_transcripts"
  /\ transcript_list' = <<>>
  /\ listed' = FALSE
  /\ transcript' = 0
  /\ language' = None
  /\ transcript_data' = <<>>
  /\ result' = NoResult
  /\ fetched' = <<>>
  /\ faultAt' = "none"
  /\ fault' = None

\* A call of fetch_transcript on its own.
CallFetchTranscript ==
  /\ rpc \in {"idle", "returned", "raised"}
  /\ \E v \in VideoIds : EnterFetchTranscript(v)
  /\ UNCHANGED listVars
  /\ UNCHANGED mainVars

\* YouTubeTranscriptApi.list_transcripts(video_id) returns (lines 85-89).
ListTranscriptsReturns ==
  /\ rpc = "list_transcripts"
  /\ \E list \in VariantLists : transcript_list' = list
  /\ listed' = TRUE
  /\ transcript' = 0
  /\ language' = None
  /\ rpc' = "find_transcript"
  /\ UNCHANGED <<video_id, transcript_data, result, fetched, faultAt, fault>>
  /\ UNCHANGED listVars
  /\ UNCHANGED mainVars

\* YouTubeTranscriptApi.list_transcripts(video_id) raises (line 85).
ListTranscriptsRaises ==
  /\ rpc = "list_transcripts"
  /\ \E e \in ExceptionKinds : RaiseInTry("query", e)
  /\ UNCHANGED <<video_id, transcript_list, listed, transcript, language,
                 transcript_data, fetched>>
  /\ UNCHANGED listVars
  /\ UNCHANGED mainVars

\* transcript_list.find_transcript(['en']) finds a variant (lines 93-94).
FindTranscriptReturns ==
  /\ rpc = "find_transcript"
  /\ FindTranscriptIndex(transcript_list, PreferredLanguages) # 0
  /\ transcript' = FindTranscriptIndex(transcript_list, PreferredLanguages)
  /\ language' = "en"
  /\ rpc' = "check"
  /\ UNCHANGED <<video_id, transcript_list, listed, transcript_data, result,
                 fetched, faultAt, fault>>
  /\ UNCHANGED listVars
  /\ UNCHANGED mainVars

\* find_transcript raises NoTranscriptFound, caught at line 95.
FindTranscriptNotFound ==
  /\ rpc = "find_transcript"
  /\ FindTranscriptIndex(transcript_list, PreferredLanguages) = 0
  /\ rpc' = "fallback"
  /\ UNCHANGED <<video_id, transcript_list, listed, transcript, language,
                 transcript_data, result, fetched, faultAt, fault>>
  /\ UNCHANGED listVars
  /\ UNCHANGED mainVars

\* find_transcript raises something else: not caught at line 95, so the outer
\* clauses decide.
FindTranscriptRaises ==
  /\ rpc = "find_transcript"
  /\ \E e \in ExceptionKinds \ {"NoTranscriptFound"} : RaiseInTry("lookup", e)
  /\ UNCHANGED <<video_id, transcript_list, listed, transcript, language,
                 transcript_data, fetched>>
  /\ UNCHANGED listVars
  /\ UNCHANGED mainVars

\* list(transcript_list) and the choice of its first element (lines 98-101).
FallbackSelects ==
  /\ rpc = "fallback"
  /\ IF transcript_list # <<>>
     THEN /\ transcript' = FallbackIndex(transcript_list)
          /\ language' = transcript_list[FallbackIndex(transcript_list)]
     ELSE /\ transcript' = transcript
          /\ language' = language
  /\ rpc' = "check"
  /\ UNCHANGED <<video_id, transcript_list, listed, transcript_data, result,
                 fetched, faultAt, fault>>
  /\ UNCHANGED listVars
  /\ UNCHANGED mainVars

\* list(transcript_list) raises: `except Exception: pass` (lines 102-103).
FallbackRaises ==
  /\ rpc = "fallback"
  /\ \E e \in ExceptionKinds :
       /\ faultAt' = "enumerate"
       /\ fault' = e
  /\ rpc' = "check"
  /\ UNCHANGED <<video_id, transcript_list, listed, transcript, language,
                 transcript_data, result, fetched>>
  /\ UNCHANGED listVars
  /\ UNCHANGED mainVars

\* `if transcript is None: return {...'unavailable'}` (lines 105-111).
NoTranscriptSelected ==
  /\ rpc = "check"
  /\ transcript = 0
  /\ result' = NotFoundResult
  /\ rpc' = "returned"
  /\ UNCHANGED <<video_id, transcript_list, listed, transcript, language,
                 transcript_data, fetched, faultAt, fault>>
  /\ UNCHANGED listVars
  /\ UNCHANGED mainVars

TranscriptSelected ==
  /\ rpc = "check"
  /\ transcript # 0
  /\ rpc' = "fetch"
  /\ UNCHANGED <<video_id, transcript_list, listed, transcript, language,
                 transcript_data, result, fetched, faultAt, fault>>
  /\ UNCHANGED listVars
  /\ UNCHANGED mainVars

\* transcript.fetch() returns; join and return 'available' (lines 114-124).
FetchReturns ==
  /\ rpc = "fetch"
  /\ fetched' = Append(fetched, transcript)
  /\ \E data \in SegmentLists :
       /\ transcript_data' = data
       /\ result' = [text |-> Join(EntryTexts(data)), language |-> language,
                     status |-> "available"]
  /\ rpc' = "returned"
  /\ UNCHANGED <<video_id, transcript_list, listed, transcript, language,
                 faultAt, fault>>
  /\ UNCHANGED listVars
  /\ UNCHANGED mainVars

\* transcript.fetch() (or reading a segment) raises (lines 114-117).
FetchRaises ==
  /\ rpc = "fetch"
  /\ fetched' = Append(fetched, transcript)
  /\ \E e \in ExceptionKinds : RaiseInTry("fetch", e)
  /\ UNCHANGED <<video_id, transcript_list, listed, transcript, language,
                 transcript_data>>
  /\ UNCHANGED listVars
  /\ UNCHANGED mainVars

NextResolve ==
  \/ CallFetchTranscript
  \/ ListTranscriptsReturns \/ ListTranscriptsRaises
  \/ FindTranscriptReturns \/ FindTranscriptNotFound \/ FindTranscriptRaises
  \/ FallbackSelects \/ FallbackRaises
  \/ NoTranscriptSelected \/ TranscriptSelected
  \/ FetchReturns \/ FetchRaises

\* ===================================================== fetch_and_process_videos

\* A playlist URL is a sequence of pieces: the separators "list=" and "&", and
\* the text between them.
PlaylistUrls ==
  { <<"https://www.youtube.com/watch?v=x", "&", "list=", "PL1", "&", "index=2">>,
    <<"https://www.youtube.com/playlist">> }

\* `"list=" in url` (main.py line 23).
HasListParam(url) == \E n \in 1..Len(url) : url[n] = "list="

\* The pieces of `pieces` before the first occurrence of a separator of seps.
UpToFirst(pieces, seps) ==
  LET at == {n \in 1..Len(pieces) : pieces[n] \in seps}
  IN IF at = {} THEN pieces
     ELSE SubSeq(pieces, 1, (CHOOSE n \in at : \A m \in at : n <= m) - 1)

\* The pieces of `pieces` after the first occurrence of sep.
AfterFirst(pieces, sep) ==
  LET at == {n \in 1..Len(pieces) : pieces[n] = sep}
  IN SubSeq(pieces, (CHOOSE n \in at : \A m \in at : n <= m) + 1, Len(pieces))

\* url.split("list=")[1].split("&")[0] (main.py line 24); the id is one piece
\* of text, or '' when nothing stands between the separators.
ExtractPlaylistId(url) ==
  LET id == UpToFirst(UpToFirst(AfterFirst(url, "list="), {"list="}), {"&"})
  IN IF id = <<>> THEN "" ELSE id[1]

\* `if transcript_result['status'] == 'available'` (main.py line 43).
StoreConditionNotError(res) == res.status # "error"
StoreCondition(res) == res.status = "available"

\* The else branch (main.py lines 53-54) logs a warning and the loop goes on.
AfterNotAvailableBreakOnError(status) == IF status = "error" THEN "break" ELSE "continue"
AfterNotAvailable(status) == "continue"

\* store_raw_transcript_in_google_docs (youtube_fetcher.py lines 155-188): the
\* placeholder URL for the video.
StoreRawTranscriptInGoogleDocs(v, text) ==
  <<"https://docs.google.com/document/d/placeholder_", v>>

MainInit ==
  /\ mpc = "idle"
  /\ playlist_url = <<>>
  /\ main_video_ids = <<>>
  /\ member_i = 0
  /\ transcript_result = NoResult
  /\ doc_url = None
  /\ calls = <<>>
  /\ stored = <<>>

\* fetch_and_process_videos is entered (main.py lines 19-33; main() calls it
\* once per playlist, lines 96-100): the id is extracted and the enumeration
\* is called, or ValueError leaves the function.
MainStart ==
  /\ mpc \in {"idle", "completed"}
  /\ \E url \in PlaylistUrls :
       /\ playlist_url' = url
       /\ IF HasListParam(url)
          THEN /\ mpc' = "listing"
               /\ EnterGetPlaylistVideoIds(ExtractPlaylistId(url))
          ELSE /\ mpc' = "raised"
               /\ UNCHANGED listVars
  /\ main_video_ids' = <<>>
  /\ member_i' = 0
  /\ transcript_result' = NoResult
  /\ doc_url' = None
  /\ calls' = <<>>
  /\ stored' = <<>>
  /\ UNCHANGED resolveVars

\* The listing service of a playlist of at most MaxMembers members answers a
\* page request.
SmallPlaylistPage ==
  /\ PageSucceeds
  /\ Len(video_ids') <= MaxMembers

\* get_playlist_video_ids returns to main.py line 33; its locals are gone.
MainListReturned ==
  /\ mpc = "listing"
  /\ lpc = "returned"
  /\ main_video_ids' = list_result
  /\ mpc' = "loop"
  /\ lpc' = "idle"
  /\ playlist_id' = None
  /\ video_ids' = <<>>
  /\ next_page_token' = None
  /\ list_result' = <<>>
  /\ list_exc' = None
  /\ requests' = <<>>
  /\ pages' = <<>>
  /\ failures' = 0
  /\ UNCHANGED <<playlist_url, member_i, transcript_result, doc_url, calls, stored>>
  /\ UNCHANGED resolveVars

\* get_playlist_video_ids raises: the exception leaves fetch_and_process_videos
\* (main.py line 33; main() logs and re-raises, lines 104-106).
MainListRaised ==
  /\ mpc = "listing"
  /\ lpc = "raised"
  /\ mpc' = "raised"
  /\ UNCHANGED <<playlist_url, main_video_ids, member_i, transcript_result, doc_url,
                 calls, stored>>
  /\ UNCHANGED listVars
  /\ UNCHANGED resolveVars

\* The next iteration of the for loop calls fetch_transcript (main.py lines
\* 37-41).  transcript_result and doc_url of the iteration before are not read
\* again before they are reassigned.
MainNextVideo ==
  /\ mpc = "loop"
  /\ member_i < Len(main_video_ids)
  /\ member_i' = member_i + 1
  /\ EnterFetchTranscript(main_video_ids[member_i + 1])
  /\ calls' = Append(calls, [op |-> "resolve", index |-> member_i + 1,
                             video_id |-> main_video_ids[member_i + 1]])
  /\ transcript_result' = NoResult
  /\ doc_url' = None
  /\ stored' = <<>>
  /\ mpc' = "resolving"
  /\ UNCHANGED <<playlist_url, main_video_ids>>
  /\ UNCHANGED listVars

\* The for loop is exhausted (main.py line 56).
MainLoopDone ==
  /\ mpc = "loop"
  /\ member_i = Len(main_video_ids)
  /\ mpc' = "completed"
  /\ UNCHANGED <<playlist_url, main_video_ids, member_i, transcript_result, doc_url,
                 calls, stored>>
  /\ UNCHANGED listVars
  /\ UNCHANGED resolveVars

\* fetch_transcript has returned; its locals are gone.
LeaveFetchTranscript ==
  /\ rpc' = "idle"
  /\ video_id' = None
  /\ transcript_list' = <<>>
  /\ listed' = FALSE
  /\ transcript' = 0
  /\ language' = None
  /\ transcript_data' = <<>>
  /\ result' = NoResult
  /\ fetched' = <<>>
  /\ faultAt' = "none"
  /\ fault' = None

\* The transcript is available: it is stored (main.py lines 41-51).
MainStores ==
  /\ mpc = "resolving"
  /\ rpc = "returned"
  /\ StoreCondition(result)
  /\ transcript_result' = result
  /\ stored' = Append(stored, [video_id |-> main_video_ids[member_i], text |-> result.text])
  /\ calls' = Append(calls, [op |-> "store", index |-> member_i,
                             video_id |-> main_video_ids[member_i]])
  /\ doc_url' = StoreRawTranscriptInGoogleDocs(main_video_ids[member_i], result.text)
  /\ mpc' = "loop"
  /\ LeaveFetchTranscript
  /\ UNCHANGED <<playlist_url, main_video_ids, member_i>>
  /\ UNCHANGED listVars

\* The transcript is not available: a warning is logged (main.py lines 41-43,
\* 53-54).
MainSkips ==
  /\ mpc = "resolving"
  /\ rpc = "returned"
  /\ ~StoreCondition(result)
  /\ transcript_result' = result
  /\ mpc' = IF AfterNotAvailable(result.status) = "continue" THEN "loop"
            ELSE "completed"
  /\ LeaveFetchTranscript
  /\ UNCHANGED <<playlist_url, main_video_ids, member_i, doc_url, calls, stored>>
  /\ UNCHANGED listVars

NextMain ==
  \/ MainStart
  \/ SmallPlaylistPage \/ PageFails
  \/ MainListReturned \/ MainListRaised
  \/ MainNextVideo \/ MainLoopDone
  \/ ListTranscriptsReturns \/ ListTranscriptsRaises
  \/ FindTranscriptReturns \/ FindTranscriptNotFound \/ FindTranscriptRaises
  \/ FallbackSelects \/ FallbackRaises
  \/ NoTranscriptSelected \/ TranscriptSelected
  \/ FetchReturns \/ FetchRaises
  \/ MainStores \/ MainSkips

\* ============================================================== specifications

Init == ListInit /\ ResolveInit /\ MainInit

\* Calls of get_playlist_video_ids against every listing-service behaviour.
SpecList == Init /\ [][NextList]_vars

\* Calls of fetch_transcript against every transcript-service behaviour.
SpecResolve == Init /\ [][NextResolve]_vars

\* Runs of fetch_and_process_videos on playlists of at most MaxMembers members.
SpecMain == Init /\ [][NextMain]_vars

\* ===================================================================== claims

HasLanguage(list, code) == \E i \in 1..Len(list) : list[i] = code

ReturnedStatuses == {"available", "unavailable", "error"}

\* C1: fetch_transcript never raises: whatever the transcript service does at
\* the variant query, the lookup, the enumeration or the segment fetch, no
\* exception leaves the call, every step of a started call can proceed, and
\* the call ends by returning a record whose status is 'available',
\* 'unavailable' or 'error'.
C1_NeverRaises ==
  /\ rpc # "raised"
  /\ rpc \notin {"idle", "returned"} => ENABLED NextResolve
  /\ rpc = "returned" => result.status \in ReturnedStatuses

C1_Witness ==
  /\ rpc = "returned"
  /\ faultAt = "fetch"
  /\ fault = "Exception"
  /\ result = FailureResult("error")

\* C2: the returned record has status 'available' if and only if its text is
\* non-empty and its language is non-null, and for 'unavailable'/'error' the
\* text is '' and the language is null.
C2_AvailableIffTextAndLanguage ==
  rpc = "returned" =>
    /\ (result.status = "available") <=>
         (result.text # <<>> /\ result.language # None)
    /\ result.status \in {"unavailable", "error"} =>
         (result.text = <<>> /\ result.language = None)

\* C5: when the variant set holds an 'en' variant (and the lookup itself does
\* not fault), fetch() is called exactly once, on an 'en' variant, the
\* selected language is 'en' wherever 'en' stands in the server's order, and
\* a call whose fetch succeeds returns language 'en'.
C5_EnglishPreferred ==
  (/\ rpc = "returned"
   /\ listed
   /\ HasLanguage(transcript_list, "en")
   /\ faultAt # "lookup")
  => /\ Len(fetched) = 1
     /\ transcript_list[fetched[1]] = "en"
     /\ language = "en"
     /\ faultAt = "none" =>
          (result.status = "available" /\ result.language = "en")

C5_Witness ==
  /\ rpc = "returned"
  /\ transcript_list = <<"fr", "de", "en">>
  /\ fetched = <<3>>
  /\ result.status = "available"
  /\ result.language = "en"

\* C6: when the variant set is non-empty and holds no 'en' variant (and
\* neither the lookup nor the enumeration faults), fetch() is called exactly
\* once, on the first variant of the server's order, and the language is that
\* variant's language code.
C6_FirstVariantFallback ==
  (/\ rpc = "returned"
   /\ listed
   /\ transcript_list # <<>>
   /\ ~HasLanguage(transcript_list, "en")
   /\ faultAt \notin {"lookup", "enumerate"})
  => /\ fetched = <<1>>
     /\ language = transcript_list[1]
     /\ faultAt = "none" =>
          (result.status = "available" /\ result.language = transcript_list[1])

C6_Witness ==
  /\ rpc = "returned"
  /\ transcript_list = <<"de", "fr">>
  /\ fetched = <<1>>
  /\ result.status = "available"
  /\ result.language = "de"

\* C7: when the variant set is empty, no fetch() is attempted at any point of
\* the call, and (unless the lookup faults with something other than 'not
\* found') the call returns {text: '', language: null, status: 'unavailable'}.
C7_EmptySetUnavailable ==
  (listed /\ transcript_list = <<>>)
  => /\ fetched = <<>>
     /\ rpc # "fetch"
     /\ (rpc = "returned" /\ faultAt # "lookup") =>
          result = [text |-> <<>>, language |-> None, status |-> "unavailable"]

C7_Witness ==
  /\ rpc = "returned"
  /\ listed
  /\ transcript_list = <<>>
  /\ faultAt = "none"
  /\ fetched = <<>>
  /\ result.status = "unavailable"

\* C8: raised by the variant query or by the segment fetch, 'transcripts
\* disabled' yields status 'unavailable' and 'video unavailable' yields status
\* 'error'.
C8_DisabledVersusUnavailable ==
  (rpc = "returned" /\ faultAt \in {"query", "fetch"})
  => /\ fault = "TranscriptsDisabled" => result.status = "unavailable"
     /\ fault = "VideoUnavailable" => result.status = "error"

C8_Witness ==
  /\ rpc = "returned"
  /\ faultAt = "fetch"
  /\ fault = "VideoUnavailable"
  /\ result.status = "error"

\* C9: an unexpected failure (not 'transcripts disabled', 'no transcript
\* found' or 'video unavailable') yields status 'error' at whichever step it
\* occurs: variant query, English lookup, enumeration, segment fetch.
C9_UnexpectedFailureIsError ==
  (/\ rpc = "returned"
   /\ fault = "Exception"
   /\ faultAt \in {"query", "lookup", "enumerate", "fetch"})
  => result.status = "error"

\* Sum of Len(texts[j]) + 1 over j < i: where segment i starts in the text.
RECURSIVE SegmentOffset(_, _)
SegmentOffset(texts, i) ==
  IF i = 1 THEN 0 ELSE SegmentOffset(texts, i - 1) + Len(texts[i - 1]) + 1

\* C10: a returned 'available' text holds the fetched segments' texts in their
\* given order, each at its place, with exactly one space between consecutive
\* segments and nothing before the first or after the last;
\* ['Hello', 'world'] gives 'Hello world'.
C10_JoinedBySingleSpaces ==
  (rpc = "returned" /\ result.status = "available")
  => LET texts == EntryTexts(transcript_data)
         n     == Len(texts)
         text  == result.text
     IN /\ n = 0 => text = <<>>
        /\ n > 0 => Len(text) = SegmentOffset(texts, n) + Len(texts[n])
        /\ \A i \in 1..n :
             SubSeq(text, SegmentOffset(texts, i) + 1,
                    SegmentOffset(texts, i) + Len(texts[i])) = texts[i]
        /\ \A i \in 1..(n - 1) :
             text[SegmentOffset(texts, i) + Len(texts[i]) + 1] = " "
        /\ texts = <<Hello, world>> =>
             text = <<"H", "e", "l", "l", "o", " ", "w", "o", "r", "l", "d">>

C10_Witness ==
  /\ rpc = "returned"
  /\ result.status = "available"
  /\ EntryTexts(transcript_data) = <<Hello, world>>
  /\ result.text = <<"H", "e", "l", "l", "o", " ", "w", "o", "r", "l", "d">>

\* Number of items on the pages before page p.
RECURSIVE PageOffset(_, _)
PageOffset(served, p) ==
  IF p = 1 THEN 0 ELSE PageOffset(served, p - 1) + Len(served[p - 1].items)

\* C3: a returned enumeration was served k >= 1 pages, each but the last with a
\* cursor, and the returned list is the pages' ids in page order and in
\* within-page order: its length is the sum of the page lengths and every item
\* stands at its place, duplicates included.
C3_ConcatenationOfPages ==
  lpc = "returned" =>
    LET k == Len(pages)
    IN /\ k >= 1
       /\ \A p \in 1..(k - 1) : Truthy(pages[p].nextPageToken)
       /\ ~Truthy(pages[k].nextPageToken)
       /\ Len(list_result) = PageOffset(pages, k) + Len(pages[k].items)
       /\ \A p \in 1..k : \A j \in 1..Len(pages[p].items) :
            list_result[PageOffset(pages, p) + j] = pages[p].items[j]

C3_Witness ==
  /\ lpc = "returned"
  /\ Len(pages) = 2
  /\ pages[1].items = <<"v2", "v1">>
  /\ pages[2].items = <<"v1">>
  /\ list_result = <<"v2", "v1", "v1">>

\* C4: a failed page request, on the first or a later page, ends the call with
\* the exception propagated: nothing is returned, the failing request is the
\* last one issued (no further request, no retry), and a call that returns a
\* list saw no failure.
C4_FailurePropagates ==
  /\ failures > 0 =>
       /\ lpc = "raised"
       /\ list_exc \in ListingErrors
       /\ list_result = <<>>
       /\ failures = 1
       /\ Len(requests) = Len(pages) + 1
  /\ lpc = "raised" => failures = 1
  /\ lpc = "returned" => failures = 0

C4_Witness ==
  /\ lpc = "raised"
  /\ Len(pages) = 1
  /\ video_ids # <<>>
  /\ Len(requests) = 2
  /\ list_result = <<>>

\* C11: the first request carries no cursor and every later request carries
\* the cursor of the response just before it; the call returns exactly at the
\* first response without a (truthy) cursor and issues no request after it; as
\* long as every response carries a cursor and no request fails the call has
\* not returned and its next request can be issued (the loop has no guard of
\* its own).
C11_CursorChain ==
  LET k == Len(pages)
      AllCursors == \A p \in 1..k : Truthy(pages[p].nextPageToken)
  IN /\ requests # <<>> => requests[1].pageToken = None
     /\ \A n \in 2..Len(requests) :
          /\ Truthy(pages[n - 1].nextPageToken)
          /\ requests[n].pageToken = pages[n - 1].nextPageToken
     /\ lpc = "returned" <=> (k >= 1 /\ ~Truthy(pages[k].nextPageToken))
     /\ lpc = "returned" =>
          /\ Len(requests) = k
          /\ \A p \in 1..(k - 1) : Truthy(pages[p].nextPageToken)
     /\ (lpc # "idle" /\ failures = 0 /\ AllCursors) => lpc = "request"
     /\ (lpc = "request" /\ Len(requests) < MaxPages) => ENABLED PageSucceeds

C11_Witness ==
  /\ lpc = "returned"
  /\ Len(requests) = 3
  /\ requests[1].pageToken = None
  /\ pages[1].nextPageToken = "t2"
  /\ requests[2].pageToken = "t2"
  /\ pages[2].nextPageToken = "t1"
  /\ requests[3].pageToken = "t1"
  /\ pages[3].nextPageToken = None

IsResolveCall(c) == c.op = "resolve"
ResolveCalls == SelectSeq(calls, IsResolveCall)

\* C12: after a successful enumeration the resolver is called exactly once per
\* entry of the returned list, in list order and one call at a time; whatever
\* a member's outcome ('available', 'unavailable', 'error') the loop goes on
\* with the next member, it can always take its next step, no exception leaves
\* the run, and the run is 'completed' only after the last entry.
C12_OneResolvePerMemberInOrder ==
  /\ mpc \in {"loop", "resolving", "completed"} =>
       /\ member_i \in 0..Len(main_video_ids)
       /\ Len(ResolveCalls) = member_i
       /\ \A k \in 1..member_i :
            /\ ResolveCalls[k].index = k
            /\ ResolveCalls[k].video_id = main_video_ids[k]
  /\ rpc # "idle" =>
       /\ mpc = "resolving"
       /\ video_id = main_video_ids[member_i]
       /\ calls[Len(calls)] = [op |-> "resolve", index |-> member_i,
                               video_id |-> main_video_ids[member_i]]
  /\ mpc = "resolving" => rpc # "idle"
  /\ (mpc = "loop" /\ member_i >= 1) => transcript_result.status \in ReturnedStatuses
  /\ mpc \in {"loop", "resolving"} => ENABLED NextMain
  /\ mpc = "raised" => calls = <<>>
  /\ mpc = "completed" => member_i = Len(main_video_ids)

C12_Witness ==
  /\ mpc = "completed"
  /\ main_video_ids = <<"v2", "v1", "v2">>
  /\ calls = << [op |-> "resolve", index |-> 1, video_id |-> "v2"],
                [op |-> "resolve", index |-> 2, video_id |-> "v1"],
                [op |-> "resolve", index |-> 3, video_id |-> "v2"] >>
  /\ transcript_result.status = "error"

\* C13: the store operation is called only for a member whose resolve returned
\* 'available', at most once per list entry, with that entry's id and the text
\* of that same resolve, right after that member's resolve and before the next
\* member's; a member whose status is 'unavailable' or 'error' is never stored.
C13_StoreOnlyAvailable ==
  /\ \A n \in 1..Len(calls) :
       calls[n].op = "store" =>
         /\ n > 1
         /\ calls[n - 1] = [op |-> "resolve", index |-> calls[n].index,
                            video_id |-> calls[n].video_id]
  /\ Len(stored) <= 1
  /\ mpc = "resolving" => stored = <<>>
  /\ (mpc \in {"loop", "completed"} /\ member_i >= 1) =>
       LET last == calls[Len(calls)]
       IN /\ stored # <<>> =>
               /\ transcript_result.status = "available"
               /\ last = [op |-> "store", index |-> member_i,
                          video_id |-> main_video_ids[member_i]]
               /\ stored = << [video_id |-> main_video_ids[member_i],
                               text |-> transcript_result.text] >>
          /\ last.op = "store" => stored # <<>>
          /\ transcript_result.status \in {"unavailable", "error"} =>
               (stored = <<>> /\ last.op = "resolve")

C13_Witness ==
  /\ mpc = "loop"
  /\ main_video_ids = <<"v1", "v2">>
  /\ calls = << [op |-> "resolve", index |-> 1, video_id |-> "v1"],
                [op |-> "resolve", index |-> 2, video_id |-> "v2"],
                [op |-> "store", index |-> 2, video_id |-> "v2"] >>
  /\ transcript_result.status = "available"
  /\ stored = << [video_id |-> "v2",
                  text |-> <<"H", "e", "l", "l", "o", " ", "w", "o", "r", "l", "d">>] >>

====
